---- MODULE Spec2Model ----
(***************************************************************************)
(* Buy-or-Not: the decision scoring engine and the saved-history state of  *)
(* the BuyOrNot component (src/unnamed/part_001, the variant with history; *)
(* src/unnamed/part_002 is the variant without).                           *)
(*                                                                         *)
(* Numbers.  The program computes with IEEE doubles.  The model computes   *)
(* with exact rationals <<n, d>> (d > 0, lowest terms), so the rounding    *)
(* error of a double operation is not modelled; every input of the model   *)
(* is a decimal with at most two places.                                   *)
(***************************************************************************)
EXTENDS Integers, Sequences, FiniteSets, TLC

Null == "null"

\* a number | null field holds <<x>> for the number x and <<>> for null
NoScore == <<>>

-----------------------------------------------------------------------------
(* Exact rational arithmetic *)

\* Every operation is a function applied to its arguments, so that an argument
\* is evaluated once, before the operation.
Rat == Int \X Int

Abs(x) == IF x < 0 THEN -x ELSE x

GCD[a \in Nat, b \in Nat] == IF b = 0 THEN a ELSE GCD[b, a % b]

\* the rational n/d in lowest terms with a positive denominator (d # 0)
QF[n \in Int, d \in Int] ==
    LET g == GCD[Abs(n), Abs(d)]
    IN  IF d < 0 THEN <<(-n) \div g, (-d) \div g>> ELSE <<n \div g, d \div g>>

Q(n, d) == QF[n, d]

N(n) == <<n, 1>>

AddF[a \in Rat, b \in Rat] ==
    IF a[2] = 1 /\ b[2] = 1 THEN <<a[1] + b[1], 1>>
    ELSE LET g == GCD[a[2], b[2]]
         IN  QF[a[1] * (b[2] \div g) + b[1] * (a[2] \div g), (a[2] \div g) * b[2]]

Add(a, b) == AddF[a, b]

NegF[a \in Rat] == <<-a[1], a[2]>>

Sub(a, b) == AddF[a, NegF[b]]

MulF[a \in Rat, b \in Rat] ==
    IF a[1] = 0 \/ b[1] = 0 THEN <<0, 1>>
    ELSE IF a[2] = 1 /\ b[2] = 1 THEN <<a[1] * b[1], 1>>
    ELSE LET g1 == GCD[Abs(a[1]), b[2]]
             g2 == GCD[Abs(b[1]), a[2]]
         IN  QF[(a[1] \div g1) * (b[1] \div g2), (a[2] \div g2) * (b[2] \div g1)]

Mul(a, b) == MulF[a, b]

\* a / b for b # 0
DivF[a \in Rat, b \in Rat] == MulF[a, QF[b[2], b[1]]]

Div(a, b) == DivF[a, b]

LtF[a \in Rat, b \in Rat] ==
    IF a[2] = b[2] THEN a[1] < b[1]
    ELSE LET g == GCD[a[2], b[2]]
         IN  a[1] * (b[2] \div g) < b[1] * (a[2] \div g)

Lt(a, b) == LtF[a, b]

Le(a, b) == ~LtF[b, a]

\* Math.max, Math.min
MaxF[a \in Rat, b \in Rat] == IF LtF[a, b] THEN b ELSE a
MinF[a \in Rat, b \in Rat] == IF LtF[b, a] THEN b ELSE a

Max(a, b) == MaxF[a, b]
Min(a, b) == MinF[a, b]

\* Math.round: the nearest integer, halves towards +infinity
RoundF[a \in Rat] == (2 * a[1] + a[2]) \div (2 * a[2])

Round(a) == RoundF[a]

IsInt(a) == a[2] = 1

-----------------------------------------------------------------------------
(* Helpers and presets *)

\* mutant of clamp: the upper bound is not applied
clampNoUpper(v, lo, hi) == Max(lo, v)

clamp(v, lo, hi) == Max(lo, Min(hi, v))

\* clamp with its default bounds lo = 0, hi = 100
clamp100(v) == clamp(v, N(0), N(100))

CONDITION_PRESETS ==
    << [key |-> "new",      probMult |-> Q(100, 100), priceMult |-> Q(100, 100)],
       [key |-> "like_new", probMult |-> Q(105, 100), priceMult |-> Q(95, 100)],
       [key |-> "good",     probMult |-> Q(100, 100), priceMult |-> Q(90, 100)],
       [key |-> "fair",     probMult |-> Q(85, 100),  priceMult |-> Q(80, 100)],
       [key |-> "poor",     probMult |-> Q(70, 100),  priceMult |-> Q(65, 100)] >>

DEMAND_PRESETS ==
    << [key |-> "high",   probMult |-> Q(115, 100), timeHoursAdd |-> Q(-50, 100)],
       [key |-> "medium", probMult |-> Q(100, 100), timeHoursAdd |-> Q(0, 100)],
       [key |-> "low",    probMult |-> Q(80, 100),  timeHoursAdd |-> Q(75, 100)] >>

\* mutant of FindPreset: an unknown key resolves to the first row
FindPresetFirstRow(presets, key) ==
    LET hits == {i \in 1..Len(presets) : presets[i].key = key}
    IN  IF hits = {} THEN presets[1]
        ELSE presets[CHOOSE i \in hits : \A j \in hits : i <= j]

\* PRESETS.find((c) => c.key === key) ?? PRESETS[1]  (the second row)
FindPreset(presets, key) ==
    LET hits == {i \in 1..Len(presets) : presets[i].key = key}
    IN  IF hits = {} THEN presets[2]
        ELSE presets[CHOOSE i \in hits : \A j \in hits : i <= j]

cond(s) == FindPreset(CONDITION_PRESETS, s.condKey)
demand(s) == FindPreset(DEMAND_PRESETS, s.demandKey)

-----------------------------------------------------------------------------
(* Derived costs; s is the snapshot of the input fields of one render *)

taxFor(s, p) == Div(Mul(p, s.taxRatePct), N(100))

stickerCost(s) == Add(s.price, taxFor(s, s.price))

\* the local discounted of the stickerCostWait factory
discounted(s) == Mul(s.price, Sub(N(1), Div(s.targetDiscountPct, N(100))))

stickerCostWait(s) == Add(discounted(s), taxFor(s, discounted(s)))

\* mutant of adjSaleProb: the product is not clamped
adjSaleProbUnclamped(s) ==
    Mul(Mul(s.saleProbabilityPct, cond(s).probMult), demand(s).probMult)

adjSaleProb(s) ==
    clamp(Mul(Mul(s.saleProbabilityPct, cond(s).probMult), demand(s).probMult),
          N(0), N(100))

adjTimeHours(s) == Max(N(0), Add(s.timeHours, demand(s).timeHoursAdd))

\* mutant of adjSalePrice: the condition does not lower the price
adjSalePriceRaw(s) == s.expectSalePrice

adjSalePrice(s) == Mul(s.expectSalePrice, cond(s).priceMult)

\* the locals prob, gross and timeCost of the resaleOffset factory
roProb(s) == Div(adjSaleProb(s), N(100))
roGross(s) == Mul(adjSalePrice(s), roProb(s))
roTimeCost(s) == Mul(adjTimeHours(s), s.hourlyValue)

\* mutant of resaleOffset: the offset is not floored at 0
resaleOffsetNoFloor(s) ==
    Sub(Sub(Sub(Sub(roGross(s), s.platformFees), s.shipCost), roTimeCost(s)),
        s.friction)

resaleOffset(s) ==
    Max(N(0),
        Sub(Sub(Sub(Sub(roGross(s), s.platformFees), s.shipCost), roTimeCost(s)),
            s.friction))

\* mutant of effectiveCost: the offset is added to the sticker cost
effectiveCostAdds(s) == Max(N(0), Add(stickerCost(s), resaleOffset(s)))

effectiveCost(s) == Max(N(0), Sub(stickerCost(s), resaleOffset(s)))

\* mutant of totalExpectedUses: the floor is a half use
totalExpectedUsesHalf(s) ==
    Max(Q(1, 2), Mul(Mul(s.usesPerWeek, Q(433, 100)), s.monthsOwn))

totalExpectedUses(s) ==
    Max(N(1), Mul(Mul(s.usesPerWeek, Q(433, 100)), s.monthsOwn))

costPerUse(s) == Div(effectiveCost(s), totalExpectedUses(s))

-----------------------------------------------------------------------------
(* Scores *)

\* the locals of the financialScore factory
\* mutant of finAffordability: the score grows with the budget impact
finAffordabilityGrows(s) == clamp100(Mul(s.budgetImpact, N(10)))

finAffordability(s) == clamp100(Sub(N(100), Mul(s.budgetImpact, N(10))))
finUsage(s) == clamp100(Add(Mul(s.useFrequency, N(8)), Mul(s.longevity, N(4))))
finPriceDrag(s) ==
    clamp100(Sub(N(100), Mul(Div(effectiveCost(s), Max(N(1), s.price)), N(50))))
finResaleBonus(s) ==
    IF s.resaleAggressive
    THEN Mul(clamp100(Mul(Div(resaleOffset(s), Max(N(1), stickerCost(s))), N(100))),
             Q(2, 10))
    ELSE N(0)
\* mutant of finCpuBonus: the limits 1 and 3 belong to the higher bonus
finCpuBonusInclusive(cpu) ==
    IF Le(cpu, N(1)) THEN N(8) ELSE IF Le(cpu, N(3)) THEN N(5) ELSE N(0)

finCpuBonus(cpu) ==
    IF Lt(cpu, N(1)) THEN N(8) ELSE IF Lt(cpu, N(3)) THEN N(5) ELSE N(0)

financialScore(s) ==
    clamp100(Add(Add(Add(Add(Mul(Q(43, 100), finAffordability(s)),
                             Mul(Q(32, 100), finUsage(s))),
                         Mul(Q(2, 10), finPriceDrag(s))),
                     finResaleBonus(s)),
                 finCpuBonus(costPerUse(s))))

\* the local aggressiveNudge of the utilityScore factory
utilAggressiveNudge(s) ==
    IF s.resaleAggressive
    THEN Min(N(10), Mul(Div(resaleOffset(s), Max(N(1), stickerCost(s))), N(50)))
    ELSE N(0)

\* need = needLevel * 10, joy = joyScore * 10, freq = useFrequency * 8, work
utilityScore(s) ==
    clamp100(Add(Add(Add(Add(Mul(Q(4, 10), Mul(s.needLevel, N(10))),
                             Mul(Q(35, 100), Mul(s.useFrequency, N(8)))),
                         Mul(Q(25, 100), Mul(s.joyScore, N(10)))),
                     IF s.workRelated THEN N(10) ELSE N(0)),
                 utilAggressiveNudge(s)))

\* mutant of clutterPenalty: the strength is a bonus, and counts without the flag
clutterPenaltyBonus(s) == Sub(N(0), s.minimalismStrength)

\* the local clutterPenalty of the riskScore factory
clutterPenalty(s) == IF s.keepOldItem THEN s.minimalismStrength ELSE N(0)

\* mutant of riskScore: a hundredth of the price is taken off the score
riskScorePriced(s) ==
    clamp100(Sub(Add(Add(Add(Add(Mul(Q(3, 10), Mul(s.returnPolicy, N(10))),
                                 Mul(Q(25, 100), Mul(s.warranty, N(8)))),
                             Mul(Q(25, 100), Mul(s.spaceFit, N(8)))),
                         Mul(Q(1, 10), Sub(N(100), Mul(s.altAvailable, N(7))))),
                     Mul(Q(1, 10), Mul(s.urgency, N(6)))),
                 Add(clutterPenalty(s), Div(s.price, N(100)))))

\* returns = returnPolicy * 10, warr = warranty * 8, space = spaceFit * 8,
\* alt = 100 - altAvailable * 7, urg = urgency * 6
riskScore(s) ==
    clamp100(Sub(Add(Add(Add(Add(Mul(Q(3, 10), Mul(s.returnPolicy, N(10))),
                                 Mul(Q(25, 100), Mul(s.warranty, N(8)))),
                             Mul(Q(25, 100), Mul(s.spaceFit, N(8)))),
                         Mul(Q(1, 10), Sub(N(100), Mul(s.altAvailable, N(7))))),
                     Mul(Q(1, 10), Mul(s.urgency, N(6)))),
                 clutterPenalty(s)))

\* the local weighted of the decisionScore factory
weighted(s) ==
    Add(Add(Mul(s.wFinancial, financialScore(s)), Mul(s.wUtility, utilityScore(s))),
        Mul(s.wRisk, riskScore(s)))

decisionScore(s) == Round(clamp100(weighted(s)))

\* mutant of verdictOf: the bands exclude their lower bound
verdictOfStrict(d) ==
    IF d > 80 THEN [label |-> "Buy", tone |-> "green"]
    ELSE IF d > 65 THEN [label |-> "Lean Buy (watch price)", tone |-> "blue"]
    ELSE IF d > 50 THEN [label |-> "Wait / Re-evaluate", tone |-> "yellow"]
    ELSE [label |-> "Skip for now", tone |-> "red"]

\* the verdict of a decision score d
verdictOf(d) ==
    IF d >= 80 THEN [label |-> "Buy", tone |-> "green"]
    ELSE IF d >= 65 THEN [label |-> "Lean Buy (watch price)", tone |-> "blue"]
    ELSE IF d >= 50 THEN [label |-> "Wait / Re-evaluate", tone |-> "yellow"]
    ELSE [label |-> "Skip for now", tone |-> "red"]

verdict(s) == verdictOf(decisionScore(s))

-----------------------------------------------------------------------------
(* Sensitivity *)

\* mutant of bestOffset: half the adjusted sale price is counted
bestOffsetHalfPrice(s) ==
    Max(N(0),
        Sub(Sub(Sub(Sub(Mul(adjSalePrice(s), Q(1, 2)), s.platformFees), s.shipCost),
                Mul(adjTimeHours(s), s.hourlyValue)),
            s.friction))

bestOffset(s) ==
    Max(N(0),
        Sub(Sub(Sub(Sub(adjSalePrice(s), s.platformFees), s.shipCost),
                Mul(adjTimeHours(s), s.hourlyValue)),
            s.friction))

\* the locals of scoreFor
sfEff(sticker, offset) == Max(N(0), Sub(sticker, offset))
sfAffordability(s) == clamp100(Sub(N(100), Mul(s.budgetImpact, N(10))))
sfUsage(s) == clamp100(Add(Mul(s.useFrequency, N(8)), Mul(s.longevity, N(4))))
sfPriceDrag(s, eff) ==
    clamp100(Sub(N(100), Mul(Div(eff, Max(N(1), s.price)), N(50))))
sfResaleBonus(s, sticker, offset) ==
    IF s.resaleAggressive
    THEN Mul(clamp100(Mul(Div(offset, Max(N(1), sticker)), N(100))), Q(2, 10))
    ELSE N(0)
sfFin(s, sticker, offset) ==
    clamp100(Add(Add(Add(Mul(Q(43, 100), sfAffordability(s)),
                         Mul(Q(32, 100), sfUsage(s))),
                     Mul(Q(2, 10), sfPriceDrag(s, sfEff(sticker, offset)))),
                 sfResaleBonus(s, sticker, offset)))
sfUtilAgg(s, sticker, offset) ==
    IF s.resaleAggressive
    THEN Min(N(10), Mul(Div(offset, Max(N(1), sticker)), N(50)))
    ELSE N(0)
sfUtil(s, sticker, offset) ==
    clamp100(Add(Add(Add(Add(Mul(Mul(Q(4, 10), s.needLevel), N(10)),
                             Mul(Mul(Q(35, 100), s.useFrequency), N(8))),
                         Mul(Mul(Q(25, 100), s.joyScore), N(10))),
                     IF s.workRelated THEN N(10) ELSE N(0)),
                 sfUtilAgg(s, sticker, offset)))
sfWeighted(s, sticker, offset) ==
    Add(Add(Mul(s.wFinancial, sfFin(s, sticker, offset)),
            Mul(s.wUtility, sfUtil(s, sticker, offset))),
        Mul(s.wRisk, riskScore(s)))

scoreFor(s, sticker, offset) == Round(clamp100(sfWeighted(s, sticker, offset)))

\* the factory of the sensitivity useMemo, run on the snapshot s
sensitivityFactory(s) ==
    [current    |-> decisionScore(s),
     noResale   |-> scoreFor(s, stickerCost(s), N(0)),
     bestResale |-> scoreFor(s, stickerCost(s), bestOffset(s)),
     waitSale   |-> IF s.simulateWait
                    THEN <<scoreFor(s, stickerCostWait(s), resaleOffset(s))>>
                    ELSE NoScore]

\* mutant of sensitivityDeps: simulateWait is missing from the list
sensitivityDepsNoFlag(s) ==
    <<decisionScore(s), stickerCost(s), stickerCostWait(s), resaleOffset(s),
      bestOffset(s)>>

\* the dependency list of the sensitivity useMemo
sensitivityDeps(s) ==
    <<decisionScore(s), stickerCost(s), stickerCostWait(s), resaleOffset(s),
      bestOffset(s), s.simulateWait>>

\* useMemo on a re-render with the dependency values deps: the cached value is
\* kept while every dependency equals the one stored at the previous render, and
\* the factory runs again otherwise
sensitivityMemo(prevDeps, cached, deps, s) ==
    IF deps = prevDeps THEN cached ELSE sensitivityFactory(s)

-----------------------------------------------------------------------------
(* The component's state *)

VARIABLES
    form,         \* the useState input fields, as one record
    sensitivity,  \* the value cached by the sensitivity useMemo
    memoDeps,     \* the dependency values the sensitivity useMemo stored with it
    entries,      \* useState<Entry[]>: the saved history
    activeId,     \* useState<string | null>
    storage,      \* localStorage["bon_entries_v1"]: NoItem or a JSON text
    effects,      \* passive effects of the last commit that have not run yet
    queued,       \* setEntries updates queued by effects, applied at the next render
    now,          \* the last value Date.now() returned
    steps         \* number of event handlers run so far

vars == <<form, sensitivity, memoDeps, entries, activeId, storage, effects, queued, now, steps>>

\* bounds of the model
MaxSteps == 3
MaxClock == 2

\* the useState initial values
DefaultForm ==
    [itemName |-> "Example: Sony WH-1000XM5",
     price |-> N(500), taxRatePct |-> N(13), budgetImpact |-> N(5),
     needLevel |-> N(4), useFrequency |-> N(7), joyScore |-> N(6),
     longevity |-> N(6), workRelated |-> FALSE,
     expectSalePrice |-> N(250), saleProbabilityPct |-> N(80),
     platformFees |-> N(25), shipCost |-> N(20), timeHours |-> N(2),
     hourlyValue |-> N(40), friction |-> N(10), resaleAggressive |-> FALSE,
     condKey |-> "like_new", demandKey |-> "medium",
     simulateWait |-> FALSE, targetDiscountPct |-> N(10), monthsToWait |-> N(1),
     monthsOwn |-> N(24), usesPerWeek |-> N(5),
     keepOldItem |-> FALSE, minimalismStrength |-> N(6),
     returnPolicy |-> N(7), warranty |-> N(6), spaceFit |-> N(8),
     altAvailable |-> N(5), urgency |-> N(4),
     wFinancial |-> Q(45, 100), wUtility |-> Q(40, 100), wRisk |-> Q(15, 100)]

\* the values resetForm sets
ResetForm ==
    [itemName |-> "",
     price |-> N(0), taxRatePct |-> N(13), budgetImpact |-> N(5),
     needLevel |-> N(5), useFrequency |-> N(5), joyScore |-> N(5),
     longevity |-> N(5), workRelated |-> FALSE,
     expectSalePrice |-> N(0), saleProbabilityPct |-> N(50),
     platformFees |-> N(0), shipCost |-> N(0), timeHours |-> N(1),
     hourlyValue |-> N(30), friction |-> N(0), resaleAggressive |-> FALSE,
     condKey |-> "like_new", demandKey |-> "medium",
     simulateWait |-> FALSE, targetDiscountPct |-> N(10), monthsToWait |-> N(1),
     monthsOwn |-> N(12), usesPerWeek |-> N(3),
     keepOldItem |-> FALSE, minimalismStrength |-> N(6),
     returnPolicy |-> N(7), warranty |-> N(6), spaceFit |-> N(7),
     altAvailable |-> N(5), urgency |-> N(4),
     wFinancial |-> Q(45, 100), wUtility |-> Q(40, 100), wRisk |-> Q(15, 100)]

NumberFields ==
    {"price", "taxRatePct", "budgetImpact", "needLevel", "useFrequency", "joyScore",
     "longevity", "expectSalePrice", "saleProbabilityPct", "platformFees", "shipCost",
     "timeHours", "hourlyValue", "friction", "targetDiscountPct", "monthsToWait",
     "monthsOwn", "usesPerWeek", "minimalismStrength", "returnPolicy", "warranty",
     "spaceFit", "altAvailable", "urgency", "wFinancial", "wUtility", "wRisk"}

ToggleFields == {"workRelated", "resaleAggressive", "simulateWait", "keepOldItem"}

SelectFields == {"condKey", "demandKey"}

\* the keys a Select offers: the keys of its options
OptionKeys(presets) == {presets[i].key : i \in 1..Len(presets)}

-----------------------------------------------------------------------------
(* History entries and their JSON text *)

\* the outputs object of the row saveEntry builds
OutputsOf(s) ==
    [decisionScore |-> decisionScore(s),
     verdict |-> verdict(s).label,
     effectiveCost |-> effectiveCost(s),
     resaleOffset |-> resaleOffset(s),
     costPerUse |-> costPerUse(s)]

\* the row saveEntry builds from the current render
Row(id, createdAt, s) ==
    [id |-> id,
     createdAt |-> createdAt,
     name |-> IF s.itemName = "" THEN "Untitled" ELSE s.itemName,
     inputs |-> s,
     outputs |-> OutputsOf(s)]

\* `${Date.now()}`
IdOf(t) == ToString(t)

\* JSON.stringify of a list of records: a well-formed text holding the records
JSONstringify(list) == [present |-> TRUE, wellFormed |-> TRUE, records |-> list]

\* getItem returns null: nothing is stored under the key
NoItem == [present |-> FALSE, wellFormed |-> FALSE, records |-> <<>>]

\* JSON.parse: throws on a text that is not well-formed JSON, else the records
JSONparseThrows(text) == ~text.wellFormed

\* mutant of JSONparse: the list comes back in the reverse order
JSONparseReversed(text) ==
    [i \in 1..Len(text.records) |-> text.records[Len(text.records) + 1 - i]]

JSONparse(text) == text.records

-----------------------------------------------------------------------------
(* Inputs of the model: what the user types and picks *)

\* values typed into a number input or set on a slider, by field
\* (onChange passes Number(e.target.value); the min/max attributes of an input
\* do not stop a typed value, so a negative price can be entered)
TypedNumbers(f) ==
    CASE f = "price" -> {N(60)}
      [] f = "longevity" -> {N(5)}
      [] f = "wFinancial" -> {N(1)}
      [] OTHER -> {}

\* the options picked in a Select
PickedKeys == {"poor", "high"}

TypedNames == {"Desk lamp"}

-----------------------------------------------------------------------------
(* Rendering *)

\* an event handler runs once the effects of the last commit have been flushed
Idle == effects = <<>> /\ queued = <<>>

\* one more handler has run
Step == steps < MaxSteps /\ steps' = steps + 1

\* a re-render with the input fields s: the sensitivity useMemo is re-evaluated
Render(s) ==
    /\ memoDeps' = sensitivityDeps(s)
    /\ sensitivity' = sensitivityMemo(memoDeps, sensitivity, memoDeps', s)

-----------------------------------------------------------------------------
(* Input handlers *)

\* LabeledNumber / Slider: onChange(Number(e.target.value))
ChangeNumber ==
    /\ Idle /\ Step
    /\ \E f \in NumberFields : \E v \in TypedNumbers(f) :
          /\ form' = [form EXCEPT ![f] = v]
          /\ Render(form')
    /\ UNCHANGED <<entries, activeId, storage, effects, queued, now>>

\* Toggle: onChange(!checked)
ChangeToggle ==
    /\ Idle /\ Step
    /\ \E f \in ToggleFields :
          /\ form' = [form EXCEPT ![f] = ~form[f]]
          /\ Render(form')
    /\ UNCHANGED <<entries, activeId, storage, effects, queued, now>>

\* Select: onChange(e.target.value), one of the option keys
ChangeSelect ==
    /\ Idle /\ Step
    /\ \/ \E k \in OptionKeys(CONDITION_PRESETS) \cap PickedKeys : form' = [form EXCEPT !.condKey = k]
       \/ \E k \in OptionKeys(DEMAND_PRESETS) \cap PickedKeys : form' = [form EXCEPT !.demandKey = k]
    /\ Render(form')
    /\ UNCHANGED <<entries, activeId, storage, effects, queued, now>>

\* the item name input: setItemName(e.target.value)
ChangeItemName ==
    /\ Idle /\ Step
    /\ \E name \in TypedNames : form' = [form EXCEPT !.itemName = name]
    /\ Render(form')
    /\ UNCHANGED <<entries, activeId, storage, effects, queued, now>>

-----------------------------------------------------------------------------
(* History handlers *)

resetForm ==
    /\ Idle /\ Step
    /\ form' = ResetForm
    /\ activeId' = Null
    /\ Render(form')
    /\ UNCHANGED <<entries, storage, effects, queued, now>>

\* prev.map((e) => (e.id === id ? row : e))
MapReplace(prev, id, row) ==
    [i \in 1..Len(prev) |-> IF prev[i].id = id THEN row ELSE prev[i]]

\* mutant of SaveUpdater: the row is always put in front
SaveUpdaterAlwaysAdds(prev, id, row) == <<row>> \o prev

\* the setEntries updater of saveEntry
SaveUpdater(prev, id, row) ==
    IF \E i \in 1..Len(prev) : prev[i].id = id
    THEN MapReplace(prev, id, row)
    ELSE <<row>> \o prev

saveEntry ==
    /\ Idle /\ Step
    /\ \E t1 \in now..MaxClock : \E t2 \in t1..MaxClock :
       \E id \in {IF activeId # Null THEN activeId ELSE IdOf(t1)} :
          /\ entries' = SaveUpdater(entries, id, Row(id, t2, form))
          /\ activeId' = IF activeId = Null THEN id ELSE activeId
          /\ now' = t2
    /\ effects' = <<"persist">>
    /\ UNCHANGED <<form, sensitivity, memoDeps, storage, queued>>

\* mutant of LoadedForm: loadEntry does not restore the price
LoadedFormKeepsPrice(e) ==
    [f \in DOMAIN DefaultForm |-> IF f = "price" THEN form[f] ELSE e.inputs[f]]

\* the fields loadEntry sets from e.inputs: every input field
LoadedForm(e) == [f \in DOMAIN DefaultForm |-> e.inputs[f]]

loadEntry ==
    /\ Idle /\ Step
    /\ \E i \in 1..Len(entries) :
          /\ activeId' = entries[i].id
          /\ form' = LoadedForm(entries[i])
    /\ Render(form')
    /\ UNCHANGED <<entries, storage, effects, queued, now>>

\* mutant of DeleteUpdater: the filter keeps the entries with the id
DeleteUpdaterKeepsId(prev, id) == SelectSeq(prev, LAMBDA e : e.id = id)

\* the setEntries updater of deleteEntry: prev.filter((e) => e.id !== id)
DeleteUpdater(prev, id) == SelectSeq(prev, LAMBDA e : e.id # id)

\* the Delete button of a history row
deleteEntry ==
    /\ Idle /\ Step
    /\ \E i \in 1..Len(entries) :
          entries' = DeleteUpdater(entries, entries[i].id)
    /\ effects' = <<"persist">>
    /\ UNCHANGED <<form, sensitivity, memoDeps, activeId, storage, queued, now>>

\* the "Rename via Item" button of a history row
RenameViaItem ==
    /\ Idle /\ Step
    /\ \E i \in 1..Len(entries) :
          /\ form' = [form EXCEPT !.itemName = entries[i].inputs.itemName]
          /\ activeId' = entries[i].id
    /\ Render(form')
    /\ UNCHANGED <<entries, storage, effects, queued, now>>

-----------------------------------------------------------------------------
(* Effects *)

\* useEffect(() => { raw = getItem; if (raw) setEntries(JSON.parse(raw)) }, [])
LoadEffect ==
    /\ effects # <<>> /\ Head(effects) = "load"
    /\ effects' = Tail(effects)
    /\ queued' = IF storage.present /\ ~JSONparseThrows(storage)
                 THEN Append(queued, JSONparse(storage))
                 ELSE queued
    /\ UNCHANGED <<form, sensitivity, memoDeps, entries, activeId, storage, now, steps>>

\* useEffect(() => { setItem(JSON.stringify(entries)) }, [entries])
PersistEffect ==
    /\ effects # <<>> /\ Head(effects) = "persist"
    /\ effects' = Tail(effects)
    /\ storage' = JSONstringify(entries)
    /\ UNCHANGED <<form, sensitivity, memoDeps, entries, activeId, queued, now, steps>>

\* the render that applies the queued setEntries updates; the new array is a new
\* object, so the [entries] effect is scheduled again
Rerender ==
    /\ effects = <<>> /\ queued # <<>>
    /\ entries' = queued[Len(queued)]
    /\ queued' = <<>>
    /\ effects' = <<"persist">>
    /\ UNCHANGED <<form, sensitivity, memoDeps, activeId, storage, now, steps>>

-----------------------------------------------------------------------------
(* Specifications *)

\* an entry saved by an earlier session
StoredEntry ==
    Row(IdOf(0), 0,
        [ResetForm EXCEPT !.itemName = "Kettle", !.price = N(60), !.joyScore = N(9)])

InitForm(s) ==
    /\ form = s
    /\ sensitivity = sensitivityFactory(s)
    /\ memoDeps = sensitivityDeps(s)
    /\ entries = <<>>
    /\ activeId = Null
    /\ effects = <<"load", "persist">>
    /\ queued = <<>>
    /\ now = 1
    /\ steps = 0

\* the component after its first render, before its effects have run
Init ==
    /\ InitForm(DefaultForm)
    /\ storage \in {NoItem, JSONstringify(<<>>), JSONstringify(<<StoredEntry>>)}

Next ==
    \/ ChangeNumber
    \/ ChangeToggle
    \/ ChangeSelect
    \/ ChangeItemName
    \/ resetForm
    \/ saveEntry
    \/ loadEntry
    \/ deleteEntry
    \/ RenameViaItem
    \/ LoadEffect
    \/ PersistEffect
    \/ Rerender

Spec == Init /\ [][Next]_vars

-----------------------------------------------------------------------------
(* The engine on a range of input snapshots *)

\* every slider at the end that lowers the scores, and at the end that raises them
LowForm ==
    [DefaultForm EXCEPT !.budgetImpact = N(10), !.needLevel = N(0),
        !.useFrequency = N(0), !.joyScore = N(0), !.longevity = N(0),
        !.returnPolicy = N(0), !.warranty = N(0), !.spaceFit = N(0),
        !.altAvailable = N(10), !.urgency = N(0)]

HighForm ==
    [DefaultForm EXCEPT !.budgetImpact = N(0), !.needLevel = N(10),
        !.useFrequency = N(10), !.joyScore = N(10), !.longevity = N(10),
        !.returnPolicy = N(10), !.warranty = N(10), !.spaceFit = N(10),
        !.altAvailable = N(0), !.urgency = N(10)]

BaseForms == {DefaultForm, ResetForm, LowForm, HighForm}

EngineNumbers(f) ==
    CASE f = "price" -> {N(-50), N(0), N(1), N(60)}
      [] f = "taxRatePct" -> {N(0)}
      [] f = "longevity" -> {N(0), N(5), N(10)}
      [] f = "expectSalePrice" -> {N(0), N(1000)}
      [] f = "saleProbabilityPct" -> {N(0), N(100)}
      [] f \in {"platformFees", "shipCost", "timeHours", "hourlyValue"} -> {N(0)}
      [] f = "friction" -> {N(300)}
      [] f = "targetDiscountPct" -> {N(0), N(40)}
      [] f = "monthsToWait" -> {}
      [] f = "monthsOwn" -> {N(1)}
      [] f = "usesPerWeek" -> {N(0), N(21)}
      [] f = "minimalismStrength" -> {N(0), N(12)}
      [] f \in {"wFinancial", "wUtility", "wRisk"} -> {N(0), N(1)}
      [] OTHER -> {N(0), N(10)}

\* preset keys, among them one that is in neither table
EngineKeys(f) ==
    IF f = "condKey" THEN OptionKeys(CONDITION_PRESETS) \cup {"mint"}
    ELSE OptionKeys(DEMAND_PRESETS) \cup {"none"}

\* snapshots that differ from the default one in several fields of the sell side:
\* a sure sale in high demand that takes no time, and a negative probability and
\* time typed into the number inputs
SellSideForms ==
    {[DefaultForm EXCEPT !.saleProbabilityPct = N(100), !.demandKey = "high",
                         !.timeHours = N(0)],
     [DefaultForm EXCEPT !.saleProbabilityPct = N(-10), !.timeHours = N(-1)]}

\* an item that is never resold and is used at most once: its cost per use is
\* its price p
OneUseForm(p) ==
    [DefaultForm EXCEPT !.price = N(p), !.taxRatePct = N(0),
                        !.expectSalePrice = N(0), !.usesPerWeek = N(0)]

\* snapshots whose cost per use is exactly 1 and exactly 3, and snapshots with a
\* negative use count and with no month of ownership
PerUseForms ==
    {OneUseForm(1), OneUseForm(3),
     [DefaultForm EXCEPT !.usesPerWeek = N(-3)],
     [DefaultForm EXCEPT !.monthsOwn = N(0)]}

\* a negative expected sale price and negative fees typed into the number inputs
\* (their min attribute does not stop a typed value)
NegativeSaleForms ==
    {[DefaultForm EXCEPT !.expectSalePrice = N(-100), !.platformFees = N(-300)]}

\* the base snapshots, every snapshot that differs from one of them in one field,
\* the sell-side snapshots, the per-use snapshots and the negative-sale snapshot
EngineForms ==
    BaseForms \cup SellSideForms \cup PerUseForms \cup NegativeSaleForms
    \cup UNION {{[b EXCEPT ![f] = v] : v \in EngineNumbers(f)} :
                   b \in BaseForms, f \in NumberFields}
    \cup UNION {{[b EXCEPT ![f] = k] : k \in EngineKeys(f)} :
                   b \in BaseForms, f \in SelectFields}

\* a mounted component whose effects have run, with the inputs s
InitEngineForm(s) ==
    /\ form = s
    /\ sensitivity = sensitivityFactory(s)
    /\ memoDeps = sensitivityDeps(s)
    /\ entries = <<>>
    /\ activeId = Null
    /\ storage = JSONstringify(<<>>)
    /\ effects = <<>>
    /\ queued = <<>>
    /\ now = 1
    /\ steps = 0

InitEngine == \E s \in EngineForms : InitEngineForm(s)

\* a Toggle, any number of times
EngineToggle ==
    /\ Idle
    /\ \E f \in ToggleFields :
          /\ form' = [form EXCEPT ![f] = ~form[f]]
          /\ Render(form')
    /\ UNCHANGED <<entries, activeId, storage, effects, queued, now, steps>>

SpecEngine == InitEngine /\ [][EngineToggle]_vars

-----------------------------------------------------------------------------
(* Mounting over what the storage may hold *)

MaxStored == 3

\* a record that is JSON but not an Entry: it has no inputs and no outputs
MalformedRecord == [id |-> IdOf(0), name |-> "Kettle"]

\* a record of the shape of the Entry type
IsEntry(r) == DOMAIN r = {"id", "createdAt", "name", "inputs", "outputs"}

RECURSIVE ListsUpTo(_, _)
ListsUpTo(S, n) ==
    IF n = 0 THEN {<<>>}
    ELSE ListsUpTo(S, n - 1)
         \cup {Append(l, x) : l \in {m \in ListsUpTo(S, n - 1) : Len(m) = n - 1}, x \in S}

\* a text is well-formed JSON or not (cut short, edited by hand), and the list it
\* holds mixes entries with records of another shape
LoadStorages ==
    {NoItem} \cup
    {[present |-> TRUE, wellFormed |-> w, records |-> l] :
        w \in BOOLEAN, l \in ListsUpTo({StoredEntry, MalformedRecord}, MaxStored)}

InitLoad ==
    /\ InitForm(DefaultForm)
    /\ storage \in LoadStorages

NextLoad ==
    \/ LoadEffect
    \/ PersistEffect
    \/ Rerender

SpecLoad == InitLoad /\ [][NextLoad]_vars

-----------------------------------------------------------------------------
(* Saving, deleting and reloading the page *)

\* the page is reloaded once the effects of the last commit have run: the
\* component mounts afresh with its initial state, and the storage is kept
Reload ==
    /\ Idle /\ Step
    /\ form' = DefaultForm
    /\ sensitivity' = sensitivityFactory(DefaultForm)
    /\ memoDeps' = sensitivityDeps(DefaultForm)
    /\ entries' = <<>>
    /\ activeId' = Null
    /\ effects' = <<"load", "persist">>
    /\ queued' = <<>>
    /\ UNCHANGED <<storage, now>>

InitReload ==
    /\ InitForm(DefaultForm)
    /\ storage \in {NoItem, JSONstringify(<<StoredEntry>>)}

NextReload ==
    \/ saveEntry
    \/ deleteEntry
    \/ resetForm
    \/ LoadEffect
    \/ PersistEffect
    \/ Rerender
    \/ Reload

SpecReload == InitReload /\ [][NextReload]_vars

-----------------------------------------------------------------------------
(* Properties *)

InScoreRange(x) == Le(N(0), x) /\ Le(x, N(100))

\* fees, shipping, time cost and friction exceed the gross expected resale value
FeesExceedGross(s) ==
    Lt(roGross(s), Add(Add(Add(s.platformFees, s.shipCost), roTimeCost(s)), s.friction))

\* C1: for every input snapshot the three sub-scores are in [0,100] and the
\* decision score is an integer in [0,100].
C1_ScoresInRange ==
    /\ InScoreRange(financialScore(form))
    /\ InScoreRange(utilityScore(form))
    /\ InScoreRange(riskScore(form))
    /\ decisionScore(form) \in 0..100

\* C1 witness: the utility sum is clamped to 100 and, with weights of sum above
\* 1, the weighted sum exceeds 100 and is clamped too.
C1_Witness ==
    /\ Lt(N(1), Add(Add(form.wFinancial, form.wUtility), form.wRisk))
    /\ utilityScore(form) = N(100)
    /\ Lt(N(100), weighted(form))
    /\ decisionScore(form) = 100

\* C2: every shown derived quantity equals the value computed from scratch from
\* the current inputs; the one quantity that is held across renders is the
\* sensitivity record.
C2_SensitivityFresh == sensitivity = sensitivityFactory(form)

\* C3: when the live resale offset lies between 0 and bestOffset, the shown
\* sensitivity scores satisfy bestResale >= current >= noResale.
C3_SensitivityOrdered ==
    (Le(N(0), resaleOffset(form)) /\ Le(resaleOffset(form), bestOffset(form)))
        => /\ sensitivity.bestResale >= sensitivity.current
           /\ sensitivity.current >= sensitivity.noResale

\* C4: scoreFor applied to the live sticker cost and the live resale offset
\* returns the live decisionScore.
C4_ScoreForMatchesLive ==
    scoreFor(form, stickerCost(form), resaleOffset(form)) = decisionScore(form)

C7_VerdictBands ==
    /\ decisionScore(form) >= 80 <=> verdict(form).label = "Buy"
    /\ decisionScore(form) \in 65..79 <=> verdict(form).label = "Lean Buy (watch price)"
    /\ decisionScore(form) \in 50..64 <=> verdict(form).label = "Wait / Re-evaluate"
    /\ decisionScore(form) < 50 <=> verdict(form).label = "Skip for now"

\* C7 witness: a score on the lower bound of a band.
C7_Witness == decisionScore(form) = 65 /\ verdict(form).label = "Lean Buy (watch price)"

\* C8: loadEntry of an entry restores every input the entry stored, and the
\* outputs recomputed from the restored inputs equal the outputs stored in it.
C8_LoadRoundTrip ==
    [][loadEntry =>
          \E i \in 1..Len(entries) :
             /\ entries[i].id = activeId'
             /\ form' = entries[i].inputs
             /\ OutputsOf(form') = entries[i].outputs]_vars

\* C8 witness: the entry of an earlier session, read from the storage, has been
\* loaded into the form after an entry was saved in this session.
C8_Witness ==
    /\ Len(entries) = 2
    /\ activeId = StoredEntry.id
    /\ form = StoredEntry.inputs
    /\ OutputsOf(form) = StoredEntry.outputs

\* C9: when the stored text parses to a list, the load effect hands on the
\* well-formed entries of the list and skips the others; one bad record neither
\* aborts the load nor is handed on to the in-memory history.
C9_LoadSkipsMalformed ==
    [][(/\ effects # <<>> /\ Head(effects) = "load"
        /\ storage.present /\ ~JSONparseThrows(storage))
          => queued' = Append(queued, SelectSeq(JSONparse(storage), IsEntry))]_vars

\* C10: current, noResale and bestResale are scores, and waitSale is null
\* exactly when simulateWait is off and a score in 0..100 exactly when it is on.
C10_SensitivityShape ==
    /\ sensitivity.current \in 0..100
    /\ sensitivity.noResale \in 0..100
    /\ sensitivity.bestResale \in 0..100
    /\ ~form.simulateWait <=> sensitivity.waitSale = NoScore
    /\ form.simulateWait =>
          /\ Len(sensitivity.waitSale) = 1
          /\ sensitivity.waitSale[1] \in 0..100

\* C10 witness: the flag was switched on and the wait scenario has a score.
C10_Witness ==
    /\ steps > 0
    /\ form.simulateWait
    /\ sensitivity.waitSale # NoScore

\* the sticker cost at the target discount, as the specification writes it:
\* price * (1 - discount/100) * (1 + tax/100)
StickerCostAtDiscount(s) ==
    Mul(Mul(s.price, Sub(N(1), Div(s.targetDiscountPct, N(100)))),
        Add(N(1), Div(s.taxRatePct, N(100))))

\* C11: with the flag on, the wait scenario is scoreFor at the discounted sticker
\* cost and the live resale offset; with a target discount of 0% it equals the
\* current score.
C11_WaitVariesStickerOnly ==
    form.simulateWait =>
       /\ stickerCostWait(form) = StickerCostAtDiscount(form)
       /\ sensitivityFactory(form).waitSale =
             <<scoreFor(form, StickerCostAtDiscount(form), resaleOffset(form))>>
       /\ form.targetDiscountPct = N(0) =>
             sensitivityFactory(form).waitSale = <<sensitivityFactory(form).current>>

\* the first part of C11 alone: the wait scenario is scoreFor at the discounted
\* sticker cost and the live offset
C11_WaitFormulaOnly ==
    form.simulateWait =>
       /\ stickerCostWait(form) = StickerCostAtDiscount(form)
       /\ sensitivityFactory(form).waitSale =
             <<scoreFor(form, StickerCostAtDiscount(form), resaleOffset(form))>>

\* the snapshot that has the seven risk inputs of s and the default value in
\* every other field
RiskInputsOnly(s) ==
    [DefaultForm EXCEPT !.returnPolicy = s.returnPolicy, !.warranty = s.warranty,
        !.spaceFit = s.spaceFit, !.altAvailable = s.altAvailable,
        !.urgency = s.urgency, !.keepOldItem = s.keepOldItem,
        !.minimalismStrength = s.minimalismStrength]

\* the risk term of the weighted sum scoreFor forms for a scenario
ScenarioRiskTerm(s, sticker, offset) ==
    Sub(sfWeighted(s, sticker, offset),
        Add(Mul(s.wFinancial, sfFin(s, sticker, offset)),
            Mul(s.wUtility, sfUtil(s, sticker, offset))))

\* C12: riskScore is decided by the seven risk inputs alone (a snapshot and the
\* one that agrees with it on them and has defaults elsewhere score the same),
\* and the current, noResale, bestResale and waitSale scenarios all weigh that
\* same riskScore.
C12_RiskIndependentOfPrice ==
    /\ riskScore(form) = riskScore(RiskInputsOnly(form))
    /\ Sub(weighted(form), Add(Mul(form.wFinancial, financialScore(form)),
                               Mul(form.wUtility, utilityScore(form))))
          = Mul(form.wRisk, riskScore(form))
    /\ ScenarioRiskTerm(form, stickerCost(form), N(0)) = Mul(form.wRisk, riskScore(form))
    /\ ScenarioRiskTerm(form, stickerCost(form), bestOffset(form))
          = Mul(form.wRisk, riskScore(form))
    /\ ScenarioRiskTerm(form, stickerCostWait(form), resaleOffset(form))
          = Mul(form.wRisk, riskScore(form))

\* C12 witness: a snapshot whose price and sell side differ from the defaults,
\* with the wait scenario on and a risk score that counts.
C12_Witness ==
    /\ form.price # DefaultForm.price
    /\ form.expectSalePrice # DefaultForm.expectSalePrice
    /\ form.simulateWait /\ form.keepOldItem
    /\ Lt(N(0), Mul(form.wRisk, riskScore(form)))
    /\ riskScore(form) = riskScore(RiskInputsOnly(form))

\* positions of a 0..10 slider that the monotonicity properties compare with
SliderLevels == {N(0), N(2), N(5), N(9), N(10)}

\* C13: a snapshot that differs from the current one only in a larger
\* budgetImpact has a financialScore that is not larger.
C13_BudgetImpactMonotone ==
    \A b \in SliderLevels :
        Le(form.budgetImpact, b) =>
            Le(financialScore([form EXCEPT !.budgetImpact = b]), financialScore(form))

\* C13 witness: the budget impact is at its top and the financial score is
\* strictly below the one at budget impact 0.
C13_Witness ==
    /\ form.budgetImpact = N(10)
    /\ Lt(financialScore(form), financialScore([form EXCEPT !.budgetImpact = N(0)]))

\* positions of the 0..12 minimalism strength slider
StrengthLevels == {N(0), N(3), N(6), N(12)}

\* C14: with keepOldItem on, a snapshot that differs from the current one only in
\* a larger minimalismStrength has a riskScore that is not larger; with keepOldItem
\* off, minimalismStrength has no effect on riskScore.
C14_MinimalismMonotone ==
    \A m \in StrengthLevels :
        /\ (form.keepOldItem /\ Le(form.minimalismStrength, m)) =>
              Le(riskScore([form EXCEPT !.minimalismStrength = m]), riskScore(form))
        /\ ~form.keepOldItem =>
              riskScore([form EXCEPT !.minimalismStrength = m]) = riskScore(form)

\* C14 witness: the flag is on, the strength is at its top and the risk score is
\* strictly below the one at strength 0.
C14_Witness ==
    /\ form.keepOldItem
    /\ form.minimalismStrength = N(12)
    /\ Lt(riskScore(form), riskScore([form EXCEPT !.minimalismStrength = N(0)]))

\* C15: the lookup of a condition key and of a demand key always yields a row:
\* the row of the key when the table has it, and else the like_new row (probMult
\* 1.05, priceMult 0.95) and the medium row (probMult 1.0, timeHoursAdd 0).
C15_PresetLookupTotal ==
    /\ form.condKey \in OptionKeys(CONDITION_PRESETS) =>
          /\ cond(form).key = form.condKey
          /\ \E i \in 1..Len(CONDITION_PRESETS) : cond(form) = CONDITION_PRESETS[i]
    /\ form.condKey \notin OptionKeys(CONDITION_PRESETS) =>
          cond(form) = [key |-> "like_new", probMult |-> Q(105, 100),
                        priceMult |-> Q(95, 100)]
    /\ form.demandKey \in OptionKeys(DEMAND_PRESETS) =>
          /\ demand(form).key = form.demandKey
          /\ \E i \in 1..Len(DEMAND_PRESETS) : demand(form) = DEMAND_PRESETS[i]
    /\ form.demandKey \notin OptionKeys(DEMAND_PRESETS) =>
          demand(form) = [key |-> "medium", probMult |-> N(1), timeHoursAdd |-> N(0)]

\* C15 witness: a condition key that is in no row of the table has been looked up.
C15_Witness ==
    /\ form.condKey = "mint"
    /\ cond(form).key = "like_new"
    /\ adjSalePrice(form) = Mul(form.expectSalePrice, Q(95, 100))

\* C16: the adjusted sale probability is in [0,100] and the adjusted time to
\* sell is not negative, whatever the base probability, the base time and the
\* presets.
C16_AdjustedInRange ==
    /\ Le(N(0), adjSaleProb(form)) /\ Le(adjSaleProb(form), N(100))
    /\ Le(N(0), adjTimeHours(form))

\* C16 witness: base probability 100 with like_new and high demand (product
\* 120.75) is capped at 100, and base time 0 with the -0.5 of high demand gives 0.
C16_Witness ==
    /\ form.saleProbabilityPct = N(100)
    /\ form.condKey = "like_new" /\ form.demandKey = "high"
    /\ form.timeHours = N(0)
    /\ adjSaleProb(form) = N(100)
    /\ adjTimeHours(form) = N(0)

\* C17: totalExpectedUses is at least 1, so costPerUse is the quotient
\* effectiveCost / totalExpectedUses and lies between 0 and effectiveCost.
C17_CostPerUseDefined ==
    /\ Le(N(1), totalExpectedUses(form))
    /\ Mul(costPerUse(form), totalExpectedUses(form)) = effectiveCost(form)
    /\ Le(N(0), costPerUse(form))
    /\ Le(costPerUse(form), effectiveCost(form))

\* C17 witness: the product usesPerWeek * 4.33 * monthsOwned is negative, the
\* floor of 1 acts and the cost per use is the whole effective cost.
C17_Witness ==
    /\ Lt(Mul(Mul(form.usesPerWeek, Q(433, 100)), form.monthsOwn), N(0))
    /\ totalExpectedUses(form) = N(1)
    /\ Lt(N(0), effectiveCost(form))
    /\ costPerUse(form) = effectiveCost(form)

\* the cost-per-use bonus as the property states it: 8 below 1, 5 from 1 up to
\* but not including 3, 0 from 3 on
CpuBonusBands(cpu) ==
    IF Lt(cpu, N(1)) THEN N(8)
    ELSE IF Le(N(1), cpu) /\ Lt(cpu, N(3)) THEN N(5)
    ELSE N(0)

\* the financial sum without the cost-per-use bonus
FinancialSumNoCpu(s) ==
    Add(Add(Add(Mul(Q(43, 100), finAffordability(s)), Mul(Q(32, 100), finUsage(s))),
            Mul(Q(20, 100), finPriceDrag(s))),
        finResaleBonus(s))

\* C18: financialScore is the clamp of 0.43*affordability + 0.32*usage +
\* 0.20*priceDrag + resaleBonus + cpuBonus, with cpuBonus 8 for a cost per use
\* below 1, 5 from 1 to below 3 and 0 from 3 on, and with resaleBonus 0 while the
\* aggressive-resale flag is off.
C18_FinancialFormula ==
    /\ financialScore(form) =
          clamp(Add(FinancialSumNoCpu(form), CpuBonusBands(costPerUse(form))),
                N(0), N(100))
    /\ costPerUse(form) = N(1) =>
          financialScore(form) = Add(FinancialSumNoCpu(form), N(5))
    /\ costPerUse(form) = N(3) => financialScore(form) = FinancialSumNoCpu(form)
    /\ ~form.resaleAggressive => finResaleBonus(form) = N(0)

\* C18 witness: a cost per use of exactly 1 has earned the bonus 5, unclamped.
C18_Witness ==
    /\ costPerUse(form) = N(1)
    /\ Lt(financialScore(form), N(100))
    /\ Sub(financialScore(form), FinancialSumNoCpu(form)) = N(5)

\* the cost inputs of the concrete scenario
ConcreteScenario(s) ==
    /\ s.price = N(500) /\ s.taxRatePct = N(13)
    /\ s.expectSalePrice = N(250) /\ s.saleProbabilityPct = N(80)
    /\ s.condKey = "like_new" /\ s.demandKey = "medium"
    /\ s.platformFees = N(25) /\ s.shipCost = N(20)
    /\ s.timeHours = N(2) /\ s.hourlyValue = N(40) /\ s.friction = N(10)

\* C19: price 500 at 13% tax, expected sale price 250 at base probability 80,
\* like_new, medium demand, fees 25, shipping 20, 2 hours at 40 and friction 10
\* give stickerCost 565, adjusted probability 84, adjusted sale price 237.5,
\* resaleOffset 64.5 and effectiveCost 500.5.
C19_ConcreteScenario ==
    ConcreteScenario(form) =>
       /\ stickerCost(form) = N(565)
       /\ adjSaleProb(form) = N(84)
       /\ adjSalePrice(form) = Q(2375, 10)
       /\ resaleOffset(form) =
             Max(N(0), Sub(Sub(Sub(Sub(Mul(Q(2375, 10), Q(84, 100)), N(25)), N(20)),
                               N(80)), N(10)))
       /\ resaleOffset(form) = Q(645, 10)
       /\ effectiveCost(form) = Q(5005, 10)

\* C19 witness: the scenario, with other fields moved off their defaults, has
\* been computed.
C19_Witness ==
    /\ ConcreteScenario(form)
    /\ form # DefaultForm
    /\ resaleOffset(form) = Q(645, 10)
    /\ effectiveCost(form) = Q(5005, 10)

\* the live derived values of the snapshot s
LiveValues(s) ==
    <<stickerCost(s), resaleOffset(s), effectiveCost(s), financialScore(s),
      utilityScore(s), riskScore(s), decisionScore(s), verdict(s)>>

\* a step that switches the wait-for-sale flag and nothing else of the form
WaitFlagSwitched == form' = [form EXCEPT !.simulateWait = ~form.simulateWait]

\* a step leaves the live values and the scenarios other than waitSale as they were
OnlyWaitSaleChanges ==
    /\ LiveValues(form') = LiveValues(form)
    /\ sensitivity'.current = sensitivity.current
    /\ sensitivity'.noResale = sensitivity.noResale
    /\ sensitivity'.bestResale = sensitivity.bestResale

\* C20: a re-render that recomputes the scenarios changes no input field beyond
\* what the handler set, and switching the wait-for-sale flag on or off changes
\* only sensitivity.waitSale: the live derived values and the current, noResale
\* and bestResale scenarios stay as they were.
C20_WaitFlagFrame == [][WaitFlagSwitched => OnlyWaitSaleChanges]_vars

\* C20 for a record that was fresh before the switch
C20_WaitFlagFrameWhenFresh ==
    [][(WaitFlagSwitched /\ sensitivity = sensitivityFactory(form))
          => OnlyWaitSaleChanges]_vars

\* the history list the page holds while it mounts: the list a queued setEntries
\* carries, before that the list in the storage the load effect is about to
\* read, and after the mount the in-memory list
HistoryHeld ==
    IF queued # <<>> THEN queued[Len(queued)]
    ELSE IF effects # <<>> /\ Head(effects) = "load"
         THEN IF storage.present THEN storage.records ELSE <<>>
         ELSE entries

\* C21: once the persist effect has run, the stored value is the in-memory list;
\* a reload and every step of the mount that follows keep that list (same
\* entries, same order), so the mount ends with the in-memory list and the
\* stored value equal to the list before the reload.
C21_HistorySurvivesReload ==
    /\ [](Idle => storage = JSONstringify(entries))
    /\ [][(Reload \/ LoadEffect \/ PersistEffect \/ Rerender)
             => HistoryHeld' = HistoryHeld]_vars

\* C21 witness: a page that was reloaded after a save has finished mounting with
\* two entries in memory and in the storage.
C21_Witness ==
    /\ Idle /\ steps >= 2
    /\ Len(entries) = 2
    /\ activeId = Null /\ form = DefaultForm
    /\ entries[2] = StoredEntry
    /\ storage = JSONstringify(entries)

\* C22: a step that replaces a non-empty stored history by an empty list is
\* taken only when the stored entries are in the in-memory history.
C22_NoEmptyOverwriteBeforeLoad ==
    [][(/\ storage.present /\ ~JSONparseThrows(storage)
        /\ JSONparse(storage) # <<>>
        /\ storage' = JSONstringify(<<>>))
          => entries = JSONparse(storage)]_vars

\* C23: activeId is null or the id of an entry of the history list.
C23_ActiveIdInHistory ==
    activeId = Null \/ \E i \in 1..Len(entries) : entries[i].id = activeId

\* C24: no two entries of the history list have the same id.
C24_UniqueIds ==
    \A i \in 1..Len(entries) : \A j \in 1..Len(entries) :
        i # j => entries[i].id # entries[j].id

\* C24 witness: two entries were saved in this session, the second one after
\* "New entry" in the millisecond in which the first save ended.
C24_Witness ==
    /\ Len(entries) = 2
    /\ entries[1].id # entries[2].id
    /\ entries[2].createdAt >= 1
    /\ entries[1].id = IdOf(entries[2].createdAt)

\* activeId names an entry of the list
ActiveInList == \E i \in 1..Len(entries) : entries[i].id = activeId

\* the step replaces exactly the active entry with the current form snapshot
ReplacesActiveEntry ==
    /\ Len(entries') = Len(entries)
    /\ \A i \in 1..Len(entries) :
          IF entries[i].id = activeId
          THEN /\ entries'[i].id = activeId
               /\ entries'[i].inputs = form
               /\ entries'[i].outputs = OutputsOf(form)
          ELSE entries'[i] = entries[i]
    /\ activeId' = activeId

\* the step puts one new entry with the current form snapshot in front
AddsEntryInFront ==
    /\ Len(entries') = Len(entries) + 1
    /\ Tail(entries') = entries
    /\ entries'[1].inputs = form
    /\ entries'[1].outputs = OutputsOf(form)
    /\ activeId' = entries'[1].id

\* C25: saveEntry with an activeId that names an entry of the list replaces
\* exactly that entry and keeps the length, the order and the other entries;
\* saveEntry with a null activeId puts the new entry in front, keeps the existing
\* entries in their order and sets activeId to the new id.
C25_SaveFrame ==
    [][saveEntry =>
          /\ ActiveInList => ReplacesActiveEntry
          /\ activeId = Null => AddsEntryInFront]_vars

\* the first part of C25 alone
C25_SaveReplacesActive == [][(saveEntry /\ ActiveInList) => ReplacesActiveEntry]_vars

\* the form and activeId as resetForm leaves them
JustReset == form = ResetForm /\ activeId = Null

\* C26: a saveEntry that follows resetForm makes the history one entry longer and
\* leaves every entry saved before as it was, whenever the two saves happen.
C26_SaveAfterResetAdds ==
    [][(saveEntry /\ JustReset) =>
          /\ Len(entries') = Len(entries) + 1
          /\ \A i \in 1..Len(entries) :
                \E j \in 1..Len(entries') : entries'[j] = entries[i]]_vars

\* the row r has the id, the outputs and, but for itemName, the inputs of e
SameButName(r, e) ==
    /\ r.id = e.id
    /\ r.outputs = e.outputs
    /\ \A f \in DOMAIN DefaultForm \ {"itemName"} : r.inputs[f] = e.inputs[f]

\* the history after a Save that follows the step, the item name edited to n
SavedAfterRename(n) ==
    SaveUpdater(entries, activeId', Row(activeId', now, [form' EXCEPT !.itemName = n]))

\* C27: after "Rename via Item" on an entry e and an edit of the item name, Save
\* writes for e a row that differs from e in its name only: the other stored
\* inputs and the stored outputs of e stay as they were.
C27_RenameOnlyRenames ==
    [][RenameViaItem =>
          \A i \in 1..Len(entries) : \A n \in TypedNames :
              entries[i].id = activeId' =>
                 /\ SavedAfterRename(n)[i].name = n
                 /\ SameButName(SavedAfterRename(n)[i], entries[i])]_vars

\* the positions of the entries of list whose id is not id
KeptPositions(list, id) == {k \in 1..Len(list) : list[k].id # id}

\* after is before without the entries whose id is id: the other entries are
\* there, unchanged and in the same relative order
RemovedExactly(before, after, id) ==
    /\ Len(after) = Cardinality(KeptPositions(before, id))
    /\ \A j \in 1..Len(after) :
          \E k \in KeptPositions(before, id) :
             /\ Cardinality({m \in KeptPositions(before, id) : m <= k}) = j
             /\ after[j] = before[k]

\* ids of the model's clock, in the list or not
ClockIds == {IdOf(t) : t \in 0..MaxClock}

WeightsNonNegative(s) ==
    Le(N(0), s.wFinancial) /\ Le(N(0), s.wUtility) /\ Le(N(0), s.wRisk)

\* the bestResale scenario does not score below the noResale scenario
BestResaleAtLeastNoResale(s) ==
    WeightsNonNegative(s) =>
        sensitivityFactory(s).bestResale >= sensitivityFactory(s).noResale

\* C29 as stated: bestOffset >= resaleOffset >= 0 for every input snapshot, and
\* bestResale >= noResale when the weights are not negative.
C29_BestOffsetAtLeastLive ==
    /\ Le(resaleOffset(form), bestOffset(form))
    /\ Le(N(0), resaleOffset(form))
    /\ BestResaleAtLeastNoResale(form)

\* C29 amended: bestOffset >= resaleOffset whenever the adjusted sale price is
\* not negative; resaleOffset >= 0 and, for weights that are not negative,
\* bestResale >= noResale hold for every input snapshot.
C29_BestOffsetAtLeastLiveNonNegSale ==
    /\ Le(N(0), adjSalePrice(form)) => Le(resaleOffset(form), bestOffset(form))
    /\ Le(N(0), resaleOffset(form))
    /\ Le(N(0), bestOffset(form))
    /\ BestResaleAtLeastNoResale(form)

\* C29 witness: a sale that is not sure pays off, the best case pays more and
\* scores higher than no resale.
C29_Witness ==
    /\ Lt(adjSaleProb(form), N(100))
    /\ Lt(N(0), resaleOffset(form))
    /\ Lt(resaleOffset(form), bestOffset(form))
    /\ WeightsNonNegative(form)
    /\ sensitivityFactory(form).bestResale > sensitivityFactory(form).noResale

-----------------------------------------------------------------------------
(* The engine of the variant without history (src/unnamed/part_002); names  *)
(* carry the suffix _p2, s is the snapshot of the input fields of one render *)

clamp_p2(v, lo, hi) == Max(lo, Min(hi, v))

\* clamp with its default bounds lo = 0, hi = 100
clamp100_p2(v) == clamp_p2(v, N(0), N(100))

CONDITION_PRESETS_p2 ==
    << [key |-> "new",      probMult |-> Q(10, 10),   priceMult |-> Q(10, 10)],
       [key |-> "like_new", probMult |-> Q(105, 100), priceMult |-> Q(95, 100)],
       [key |-> "good",     probMult |-> Q(10, 10),   priceMult |-> Q(9, 10)],
       [key |-> "fair",     probMult |-> Q(85, 100),  priceMult |-> Q(8, 10)],
       [key |-> "poor",     probMult |-> Q(7, 10),    priceMult |-> Q(65, 100)] >>

DEMAND_PRESETS_p2 ==
    << [key |-> "high",   probMult |-> Q(115, 100), timeHoursAdd |-> Q(-5, 10)],
       [key |-> "medium", probMult |-> Q(10, 10),   timeHoursAdd |-> N(0)],
       [key |-> "low",    probMult |-> Q(8, 10),    timeHoursAdd |-> Q(75, 100)] >>

\* PRESETS.find((c) => c.key === key) ?? PRESETS[1]
FindPreset_p2(presets, key) ==
    IF \E i \in 1..Len(presets) : presets[i].key = key
    THEN presets[CHOOSE i \in 1..Len(presets) :
                    /\ presets[i].key = key
                    /\ \A j \in 1..(i - 1) : presets[j].key # key]
    ELSE presets[2]

cond_p2(s) == FindPreset_p2(CONDITION_PRESETS_p2, s.condKey)
demand_p2(s) == FindPreset_p2(DEMAND_PRESETS_p2, s.demandKey)

taxFor_p2(s, p) == Div(Mul(p, s.taxRatePct), N(100))

stickerCost_p2(s) == Add(s.price, taxFor_p2(s, s.price))

\* the local discounted of the stickerCostWait factory
discounted_p2(s) == Mul(s.price, Sub(N(1), Div(s.targetDiscountPct, N(100))))

stickerCostWait_p2(s) == Add(discounted_p2(s), taxFor_p2(s, discounted_p2(s)))

adjSaleProb_p2(s) ==
    clamp_p2(Mul(Mul(s.saleProbabilityPct, cond_p2(s).probMult),
                 demand_p2(s).probMult),
             N(0), N(100))

adjTimeHours_p2(s) == Max(N(0), Add(s.timeHours, demand_p2(s).timeHoursAdd))

adjSalePrice_p2(s) == Mul(s.expectSalePrice, cond_p2(s).priceMult)

\* gross = adjSalePrice * (adjSaleProb / 100), timeCost = adjTimeHours * hourlyValue
resaleOffset_p2(s) ==
    Max(N(0),
        Sub(Sub(Sub(Sub(Mul(adjSalePrice_p2(s), Div(adjSaleProb_p2(s), N(100))),
                        s.platformFees),
                    s.shipCost),
                Mul(adjTimeHours_p2(s), s.hourlyValue)),
            s.friction))

effectiveCost_p2(s) == Max(N(0), Sub(stickerCost_p2(s), resaleOffset_p2(s)))

\* a variant of totalExpectedUses_p2 with 4.3 weeks in a month
totalExpectedUses_p2_Weeks43(s) ==
    Max(N(1), Mul(Mul(s.usesPerWeek, Q(43, 10)), s.monthsOwn))

totalExpectedUses_p2(s) ==
    Max(N(1), Mul(Mul(s.usesPerWeek, Q(433, 100)), s.monthsOwn))

costPerUse_p2(s) == Div(effectiveCost_p2(s), totalExpectedUses_p2(s))

\* the locals priceDrag, resaleBonus and cpuBonus of the financialScore factory
finPriceDrag_p2(s) ==
    clamp100_p2(Sub(N(100),
                    Mul(Div(effectiveCost_p2(s), Max(N(1), s.price)), N(50))))
finResaleBonus_p2(s) ==
    IF s.resaleAggressive
    THEN Mul(clamp100_p2(Mul(Div(resaleOffset_p2(s), Max(N(1), stickerCost_p2(s))),
                             N(100))),
             Q(2, 10))
    ELSE N(0)
finCpuBonus_p2(cpu) ==
    IF Lt(cpu, N(1)) THEN N(8) ELSE IF Lt(cpu, N(3)) THEN N(5) ELSE N(0)

\* affordability = clamp(100 - budgetImpact * 10),
\* usage = clamp(useFrequency * 8 + longevity * 4)
financialScore_p2(s) ==
    clamp100_p2(
        Add(Add(Add(Add(Mul(Q(43, 100),
                            clamp100_p2(Sub(N(100), Mul(s.budgetImpact, N(10))))),
                        Mul(Q(32, 100),
                            clamp100_p2(Add(Mul(s.useFrequency, N(8)),
                                            Mul(s.longevity, N(4)))))),
                    Mul(Q(2, 10), finPriceDrag_p2(s))),
                finResaleBonus_p2(s)),
            finCpuBonus_p2(costPerUse_p2(s))))

\* the local aggressiveNudge of the utilityScore factory
utilAggressiveNudge_p2(s) ==
    IF s.resaleAggressive
    THEN Min(N(10),
             Mul(Div(resaleOffset_p2(s), Max(N(1), stickerCost_p2(s))), N(50)))
    ELSE N(0)

utilityScore_p2(s) ==
    clamp100_p2(Add(Add(Add(Add(Mul(Q(4, 10), Mul(s.needLevel, N(10))),
                                Mul(Q(35, 100), Mul(s.useFrequency, N(8)))),
                            Mul(Q(25, 100), Mul(s.joyScore, N(10)))),
                        IF s.workRelated THEN N(10) ELSE N(0)),
                    utilAggressiveNudge_p2(s)))

\* clutterPenalty = keepOldItem ? minimalismStrength : 0
riskScore_p2(s) ==
    clamp100_p2(
        Sub(Add(Add(Add(Add(Mul(Q(3, 10), Mul(s.returnPolicy, N(10))),
                            Mul(Q(25, 100), Mul(s.warranty, N(8)))),
                        Mul(Q(25, 100), Mul(s.spaceFit, N(8)))),
                    Mul(Q(1, 10), Sub(N(100), Mul(s.altAvailable, N(7))))),
                Mul(Q(1, 10), Mul(s.urgency, N(6)))),
            IF s.keepOldItem THEN s.minimalismStrength ELSE N(0)))

decisionScore_p2(s) ==
    Round(clamp100_p2(Add(Add(Mul(s.wFinancial, financialScore_p2(s)),
                              Mul(s.wUtility, utilityScore_p2(s))),
                          Mul(s.wRisk, riskScore_p2(s)))))

\* the verdict of a decision score d
verdictOf_p2(d) ==
    IF d >= 80 THEN [label |-> "Buy", tone |-> "green"]
    ELSE IF d >= 65 THEN [label |-> "Lean Buy (watch price)", tone |-> "blue"]
    ELSE IF d >= 50 THEN [label |-> "Wait / Re-evaluate", tone |-> "yellow"]
    ELSE [label |-> "Skip for now", tone |-> "red"]

verdict_p2(s) == verdictOf_p2(decisionScore_p2(s))

bestOffset_p2(s) ==
    Max(N(0),
        Sub(Sub(Sub(Sub(adjSalePrice_p2(s), s.platformFees), s.shipCost),
                Mul(adjTimeHours_p2(s), s.hourlyValue)),
            s.friction))

\* the locals fin and util of scoreFor; eff = Math.max(0, sticker - offset)
sfFin_p2(s, sticker, offset) ==
    clamp100_p2(
        Add(Add(Add(Mul(Q(43, 100),
                        clamp100_p2(Sub(N(100), Mul(s.budgetImpact, N(10))))),
                    Mul(Q(32, 100),
                        clamp100_p2(Add(Mul(s.useFrequency, N(8)),
                                        Mul(s.longevity, N(4)))))),
                Mul(Q(2, 10),
                    clamp100_p2(Sub(N(100),
                                    Mul(Div(Max(N(0), Sub(sticker, offset)),
                                            Max(N(1), s.price)),
                                        N(50)))))),
            IF s.resaleAggressive
            THEN Mul(clamp100_p2(Mul(Div(offset, Max(N(1), sticker)), N(100))),
                     Q(2, 10))
            ELSE N(0)))
sfUtil_p2(s, sticker, offset) ==
    clamp100_p2(Add(Add(Add(Add(Mul(Mul(Q(4, 10), s.needLevel), N(10)),
                                Mul(Mul(Q(35, 100), s.useFrequency), N(8))),
                            Mul(Mul(Q(25, 100), s.joyScore), N(10))),
                        IF s.workRelated THEN N(10) ELSE N(0)),
                    IF s.resaleAggressive
                    THEN Min(N(10), Mul(Div(offset, Max(N(1), sticker)), N(50)))
                    ELSE N(0)))

scoreFor_p2(s, sticker, offset) ==
    Round(clamp100_p2(Add(Add(Mul(s.wFinancial, sfFin_p2(s, sticker, offset)),
                              Mul(s.wUtility, sfUtil_p2(s, sticker, offset))),
                          Mul(s.wRisk, riskScore_p2(s)))))

\* the factory of the sensitivity useMemo, run on the snapshot s
sensitivityFactory_p2(s) ==
    [current    |-> decisionScore_p2(s),
     noResale   |-> scoreFor_p2(s, stickerCost_p2(s), N(0)),
     bestResale |-> scoreFor_p2(s, stickerCost_p2(s), bestOffset_p2(s)),
     waitSale   |-> IF s.simulateWait
                    THEN <<scoreFor_p2(s, stickerCostWait_p2(s), resaleOffset_p2(s))>>
                    ELSE NoScore]

\* the dependency list of the sensitivity useMemo
sensitivityDeps_p2(s) ==
    <<decisionScore_p2(s), stickerCost_p2(s), stickerCostWait_p2(s),
      resaleOffset_p2(s), bestOffset_p2(s), s.simulateWait>>

\* C30: on every input snapshot the variant with history and the variant without
\* compute the same stickerCost, resaleOffset, effectiveCost, costPerUse,
\* financialScore, utilityScore, riskScore, decisionScore and verdict, the
\* sensitivity factories return the same four values, and the two sensitivity
\* memos have the same dependency values (so they are recomputed on the same
\* renders)
C30_VariantsComputeSameEngine ==
    /\ stickerCost_p2(form) = stickerCost(form)
    /\ resaleOffset_p2(form) = resaleOffset(form)
    /\ effectiveCost_p2(form) = effectiveCost(form)
    /\ costPerUse_p2(form) = costPerUse(form)
    /\ financialScore_p2(form) = financialScore(form)
    /\ utilityScore_p2(form) = utilityScore(form)
    /\ riskScore_p2(form) = riskScore(form)
    /\ decisionScore_p2(form) = decisionScore(form)
    /\ verdict_p2(form) = verdict(form)
    /\ sensitivityFactory_p2(form) = sensitivityFactory(form)
    /\ sensitivityDeps_p2(form) = sensitivityDeps(form)

\* a snapshot off the defaults with the wait simulation on, a resale that pays
\* and more than one expected use, on which both variants compute a wait score
C30_Witness ==
    /\ form.simulateWait /\ form.resaleAggressive
    /\ form.condKey # DefaultForm.condKey
    /\ Lt(N(0), resaleOffset_p2(form))
    /\ Lt(N(1), totalExpectedUses_p2(form))
    /\ sensitivityFactory_p2(form).waitSale # NoScore
    /\ sensitivityFactory_p2(form).waitSale = sensitivityFactory(form).waitSale

====
